---- MODULE Spec2Model ----
(***************************************************************************)
(* Data Consistency Checker: the validation / repair engine                *)
(* (backend/validationRules.js), the scan coordinator and status projector *)
(* (services/consistencyChecker.js), the POST /check route                 *)
(* (backend/routes/api.js), report persistence                             *)
(* (services/reportGenerator.js) and the seed script (backend/seed.js).    *)
(*                                                                         *)
(* JavaScript values are modelled as tagged records of one shape, strings  *)
(* as sequences of one-character strings, so that parseInt, the e-mail     *)
(* pattern and String() are computed character by character.               *)
(***************************************************************************)
EXTENDS Integers, Sequences, FiniteSets, TLC

(***************************************************************************)
(* Bounds of the model                                                     *)
(***************************************************************************)
NDocs == 2
NReq == 2
MaxClock == 1
MaxScans == 2
MaxIssues == 1

(***************************************************************************)
(* JavaScript values                                                       *)
(***************************************************************************)
Undef == [t |-> "undefined", n |-> 0, s |-> <<>>, b |-> FALSE]
Null == [t |-> "object", n |-> 0, s |-> <<>>, b |-> FALSE]
Str(cs) == [t |-> "string", n |-> 0, s |-> cs, b |-> FALSE]
Num(k) == [t |-> "number", n |-> k, s |-> <<>>, b |-> FALSE]
Bool(x) == [t |-> "boolean", n |-> 0, s |-> <<>>, b |-> x]

\* typeof v  (typeof null is 'object')
TypeOf(v) == v.t

\* !!v
Truthy(v) ==
  CASE v.t = "string" -> v.s # <<>>
    [] v.t = "number" -> v.n # 0
    [] v.t = "boolean" -> v.b
    [] OTHER -> FALSE

Digits == <<"0", "1", "2", "3", "4", "5", "6", "7", "8", "9">>
IsDigit(c) == \E i \in 1..10 : Digits[i] = c
DigitVal(c) == (CHOOSE i \in 1..10 : Digits[i] = c) - 1
IsSpace(c) == c \in {" ", "\t", "\n"}

RECURSIVE SkipSpace(_)
SkipSpace(cs) == IF cs # <<>> /\ IsSpace(Head(cs)) THEN SkipSpace(Tail(cs)) ELSE cs

RECURSIVE DigitRun(_, _, _)
\* reads the leading decimal digits of cs; seen = at least one digit read
DigitRun(cs, acc, seen) ==
  IF cs # <<>> /\ IsDigit(Head(cs))
    THEN DigitRun(Tail(cs), acc * 10 + DigitVal(Head(cs)), TRUE)
    ELSE [nan |-> ~seen, n |-> acc]

\* parseInt(cs, 10): leading white space, an optional sign, then digits;
\* NaN when no digit follows
parseInt(cs) ==
  LET t == SkipSpace(cs)
      neg == t # <<>> /\ Head(t) = "-"
      signed == t # <<>> /\ Head(t) \in {"-", "+"}
      r == DigitRun(IF signed THEN Tail(t) ELSE t, 0, FALSE)
  IN [nan |-> r.nan, n |-> IF r.nan THEN 0 ELSE IF neg THEN 0 - r.n ELSE r.n]

RECURSIVE NatToStr(_)
NatToStr(k) == IF k < 10 THEN <<Digits[k + 1]>> ELSE NatToStr(k \div 10) \o <<Digits[(k % 10) + 1]>>

\* String(v), as template literals and RegExp.prototype.test coerce
ToStr(v) ==
  CASE v.t = "string" -> v.s
    [] v.t = "number" -> IF v.n < 0 THEN <<"-">> \o NatToStr(0 - v.n) ELSE NatToStr(v.n)
    [] v.t = "boolean" -> IF v.b THEN <<"t", "r", "u", "e">> ELSE <<"f", "a", "l", "s", "e">>
    [] v.t = "object" -> <<"n", "u", "l", "l">>
    [] OTHER -> <<"u", "n", "d", "e", "f", "i", "n", "e", "d">>

\* Number(v) for the relational operators < and > on a non-string value
ToNumber(v) ==
  CASE v.t = "number" -> [nan |-> FALSE, n |-> v.n]
    [] v.t = "boolean" -> [nan |-> FALSE, n |-> IF v.b THEN 1 ELSE 0]
    [] v.t = "object" -> [nan |-> FALSE, n |-> 0]
    [] OTHER -> [nan |-> TRUE, n |-> 0]

\* emailRegex.test(v): one or more characters that are neither white space
\* nor an at sign, an at sign, one or more such characters, a dot, one or
\* more such characters; the value is coerced with String(v)
Plain(c) == ~IsSpace(c) /\ c # "@"
emailRegexTest(v) ==
  LET cs == ToStr(v)
  IN \E a \in 1..Len(cs) : \E d \in 1..Len(cs) :
       /\ cs[a] = "@"
       /\ cs[d] = "."
       /\ 1 < a /\ a + 1 < d /\ d < Len(cs)
       /\ \A i \in 1..Len(cs) : i # a => Plain(cs[i])

(***************************************************************************)
(* Documents, rule sets (validationRules.js)                               *)
(***************************************************************************)
Fields == {"name", "email", "age", "role", "isActive"}
NoProp == "undefined"

\* a document: the _id and the five attributes the users rules speak about;
\* an attribute the document does not carry is Undef
Doc(id, name, email, age, role, isActive) ==
  [_id |-> id, name |-> name, email |-> email, age |-> age, role |-> role, isActive |-> isActive]

S_user == Str(<<"u", "s", "e", "r">>)
S_admin == Str(<<"a", "d", "m", "i", "n">>)
S_moderator == Str(<<"m", "o", "d", "e", "r", "a", "t", "o", "r">>)
S_missingEmail == Str(<<"m", "i", "s", "s", "i", "n", "g", "@", "e", "x", "a", "m", "p", "l", "e", ".", "c", "o", "m">>)
AgeMin == 0
AgeMax == 150

\* validationRules.users
usersRules ==
  [requiredFields |-> <<"name", "email">>,
   fieldTypes |-> <<[field |-> "name", type |-> "string"],
                    [field |-> "email", type |-> "string"],
                    [field |-> "age", type |-> "number"],
                    [field |-> "role", type |-> "string"],
                    [field |-> "isActive", type |-> "boolean"]>>,
   allowedValues |-> <<[field |-> "role", allowed |-> {S_user, S_admin, S_moderator}]>>,
   valueRanges |-> <<[field |-> "age", min |-> AgeMin, max |-> AgeMax]>>,
   defaultValues |-> [name |-> Undef, email |-> S_missingEmail, age |-> Num(0),
                      role |-> S_user, isActive |-> Bool(TRUE)],
   customValidations |-> <<"email">>]

Collections == {"users", "orders"}
\* validationRules[collection] is defined
HasRules(collection) == collection = "users"
\* validationRules[collection]
RulesOf(collection) == usersRules

\* rules.customValidations[field](value)
customValid(field, v) == IF field = "email" THEN emailRegexTest(v) ELSE TRUE

\* const x = v; F(x): v is computed once
Let(v, F(_)) == CHOOSE y \in {F(x) : x \in {v}} : TRUE

Issue(field, kind, severity, description) ==
  [field |-> field, issue |-> kind, severity |-> severity, description |-> description,
   text |-> <<>>]
\* the bare string validateDocument returns when no rules exist: it has no
\* field, issue, severity or description property
NoRulesIssue(collection) ==
  [field |-> NoProp, issue |-> NoProp, severity |-> NoProp, description |-> <<>>,
   text |-> <<"No validation rules found for collection: ", collection>>]

\* the operand of < and > in the range check
RangeValue(v) == IF TypeOf(v) = "string" THEN parseInt(v.s) ELSE ToNumber(v)
\* the lower bound itself counted as outside the range
BelowMinInclusive(v, range) == LET x == RangeValue(v) IN ~x.nan /\ x.n <= range.min
\* the upper bound itself counted as outside the range
AboveMaxInclusive(v, range) == LET x == RangeValue(v) IN ~x.nan /\ x.n >= range.max
BelowMin(v, range) == LET x == RangeValue(v) IN ~x.nan /\ x.n < range.min
AboveMax(v, range) == LET x == RangeValue(v) IN ~x.nan /\ x.n > range.max
RangeText(v) == LET x == RangeValue(v) IN IF x.nan THEN <<"N", "a", "N">> ELSE ToStr(Num(x.n))

\* each stage: forEach over the rule's fields, pushing an issue for a field
\* that fails the test
isMissing(document, field) ==
  document[field] = Undef \/ document[field] = Null \/ document[field] = Str(<<>>)

requiredIssues(document, rules) ==
  SelectSeq([i \in 1..Len(rules.requiredFields) |->
               Issue(rules.requiredFields[i], "missing_required_field", "high",
                     <<"Required field '", rules.requiredFields[i], "' is missing or empty">>)],
            LAMBDA iss : isMissing(document, iss.field))

typeMismatchAsNumber(document, field, expectedType) ==
  /\ expectedType = "number" /\ TypeOf(document[field]) = "string"
  /\ parseInt(document[field].s).nan
typeMismatchOther(document, field, expectedType) ==
  /\ ~(expectedType = "number" /\ TypeOf(document[field]) = "string")
  /\ expectedType # TypeOf(document[field])
expectedTypeOf(rules, field) ==
  rules.fieldTypes[CHOOSE i \in 1..Len(rules.fieldTypes) : rules.fieldTypes[i].field = field].type

typeIssues(document, rules) ==
  SelectSeq([i \in 1..Len(rules.fieldTypes) |->
               Issue(rules.fieldTypes[i].field, "invalid_type", "medium",
                     <<"Field '", rules.fieldTypes[i].field, "' should be ",
                       rules.fieldTypes[i].type, " but is ",
                       TypeOf(document[rules.fieldTypes[i].field])>>
                     \o (IF rules.fieldTypes[i].type = "number"
                            /\ TypeOf(document[rules.fieldTypes[i].field]) = "string"
                           THEN <<" and cannot be parsed">> ELSE <<>>))],
            LAMBDA iss :
              /\ document[iss.field] # Undef
              /\ \/ typeMismatchAsNumber(document, iss.field, expectedTypeOf(rules, iss.field))
                 \/ typeMismatchOther(document, iss.field, expectedTypeOf(rules, iss.field)))

allowedOf(rules, field) ==
  rules.allowedValues[CHOOSE i \in 1..Len(rules.allowedValues) :
                         rules.allowedValues[i].field = field].allowed

allowedIssues(document, rules) ==
  SelectSeq([i \in 1..Len(rules.allowedValues) |->
               Issue(rules.allowedValues[i].field, "invalid_value", "high",
                     <<"Field '", rules.allowedValues[i].field, "' has invalid value '">>
                       \o ToStr(document[rules.allowedValues[i].field])
                       \o <<"'. Allowed: user, admin, moderator">>)],
            LAMBDA iss :
              document[iss.field] # Undef /\ document[iss.field] \notin allowedOf(rules, iss.field))

\* rules.valueRanges[field]
rangeOf(rules, field) ==
  rules.valueRanges[CHOOSE i \in 1..Len(rules.valueRanges) : rules.valueRanges[i].field = field]

rangeIssues(document, rules) ==
  SelectSeq([i \in 1..Len(rules.valueRanges) |->
               Issue(rules.valueRanges[i].field, "out_of_range", "medium",
                     <<"Field '", rules.valueRanges[i].field, "' value ">>
                       \o RangeText(document[rules.valueRanges[i].field])
                       \o <<" is out of range [">> \o ToStr(Num(rules.valueRanges[i].min))
                       \o <<", ">> \o ToStr(Num(rules.valueRanges[i].max)) \o <<"]">>)],
            LAMBDA iss :
              /\ document[iss.field] # Undef
              /\ \/ BelowMin(document[iss.field], rangeOf(rules, iss.field))
                 \/ AboveMax(document[iss.field], rangeOf(rules, iss.field)))

customIssues(document, rules) ==
  SelectSeq([i \in 1..Len(rules.customValidations) |->
               Issue(rules.customValidations[i], "custom_validation_failed", "medium",
                     <<"Field '", rules.customValidations[i], "' failed custom validation">>)],
            LAMBDA iss : document[iss.field] # Undef /\ ~customValid(iss.field, document[iss.field]))

\* validateDocument(document, collection)
validateDocument(document, collection) ==
  IF ~HasRules(collection) THEN <<NoRulesIssue(collection)>>
  ELSE LET rules == RulesOf(collection)
       IN requiredIssues(document, rules) \o typeIssues(document, rules)
            \o allowedIssues(document, rules) \o rangeIssues(document, rules)
            \o customIssues(document, rules)

(***************************************************************************)
(* repairDocument (validationRules.js)                                     *)
(***************************************************************************)
Repair(field, action, oldValue, newValue) ==
  [field |-> field, action |-> action, oldValue |-> oldValue, newValue |-> newValue]

\* rules.defaultValues[field]; a field outside the map gives undefined
defaultOf(rules, field) == IF field \in Fields THEN rules.defaultValues[field] ELSE Undef
\* repairedDoc[field]
fieldOf(doc, field) == IF field \in Fields THEN doc[field] ELSE Undef
setField(doc, field, v) == IF field \in Fields THEN [doc EXCEPT ![field] = v] ELSE doc

\* the default written and recorded whether or not the rules have one
repairMissingAlways(st, issue, rules) ==
  [st EXCEPT !.doc = setField(st.doc, issue.field, defaultOf(rules, issue.field)),
             !.repairs = Append(st.repairs,
                Repair(issue.field, "set_default", Undef, defaultOf(rules, issue.field)))]

\* case 'missing_required_field'
repairMissing(st, issue, rules) ==
  IF Truthy(defaultOf(rules, issue.field))
    THEN [st EXCEPT !.doc = setField(st.doc, issue.field, defaultOf(rules, issue.field)),
                    !.repairs = Append(st.repairs,
                       Repair(issue.field, "set_default", Undef, defaultOf(rules, issue.field)))]
    ELSE st

\* an age string converted whether or not it parses (NaN recorded as 0)
repairTypeUnparsed(st, issue) ==
  IF issue.field = "age" /\ TypeOf(fieldOf(st.doc, "age")) = "string"
    THEN [st EXCEPT !.doc = setField(st.doc, "age", Num(parseInt(fieldOf(st.doc, "age").s).n)),
                    !.repairs = Append(st.repairs,
                       Repair("age", "type_conversion", fieldOf(st.doc, "age"),
                              Num(parseInt(fieldOf(st.doc, "age").s).n)))]
    ELSE st

\* case 'invalid_type'
repairType(st, issue) ==
  IF issue.field = "age" /\ TypeOf(fieldOf(st.doc, "age")) = "string"
       /\ ~parseInt(fieldOf(st.doc, "age").s).nan
    THEN [st EXCEPT !.doc = setField(st.doc, "age", Num(parseInt(fieldOf(st.doc, "age").s).n)),
                    !.repairs = Append(st.repairs,
                       Repair("age", "type_conversion", fieldOf(st.doc, "age"),
                              Num(parseInt(fieldOf(st.doc, "age").s).n)))]
    ELSE st

\* the role repair recorded but the field left as it was
repairValueNotWritten(st, issue, document, rules) ==
  IF issue.field = "role"
    THEN [st EXCEPT !.repairs = Append(st.repairs,
                       Repair("role", "set_default", document.role, defaultOf(rules, "role")))]
    ELSE st

\* the old value read after the field was overwritten
repairValueOldLost(st, issue, document, rules) ==
  IF issue.field = "role"
    THEN [st EXCEPT !.doc = setField(st.doc, "role", defaultOf(rules, "role")),
                    !.repairs = Append(st.repairs,
                       Repair("role", "set_default", defaultOf(rules, "role"),
                              defaultOf(rules, "role")))]
    ELSE st

\* case 'invalid_value'
repairValue(st, issue, document, rules) ==
  IF issue.field = "role"
    THEN [st EXCEPT !.doc = setField(st.doc, "role", defaultOf(rules, "role")),
                    !.repairs = Append(st.repairs,
                       Repair("role", "set_default", document.role, defaultOf(rules, "role")))]
    ELSE st

\* clamping to one past the bound
repairRangePastBound(st, issue, rules) ==
  IF issue.field # "age" THEN st
  ELSE LET range == rangeOf(rules, "age")
           value == RangeValue(fieldOf(st.doc, "age"))
       IN IF BelowMin(fieldOf(st.doc, "age"), range)
            THEN [st EXCEPT !.doc = setField(st.doc, "age", Num(range.min - 1)),
                            !.repairs = Append(st.repairs,
                               Repair("age", "clamp_to_min", Num(value.n), Num(range.min - 1)))]
          ELSE IF AboveMax(fieldOf(st.doc, "age"), range)
            THEN [st EXCEPT !.doc = setField(st.doc, "age", Num(range.max + 1)),
                            !.repairs = Append(st.repairs,
                               Repair("age", "clamp_to_max", Num(value.n), Num(range.max + 1)))]
          ELSE st

\* case 'out_of_range'
repairRange(st, issue, rules) ==
  IF issue.field # "age" THEN st
  ELSE LET range == rangeOf(rules, "age")
           value == RangeValue(fieldOf(st.doc, "age"))
       IN IF BelowMin(fieldOf(st.doc, "age"), range)
            THEN [st EXCEPT !.doc = setField(st.doc, "age", Num(range.min)),
                            !.repairs = Append(st.repairs,
                               Repair("age", "clamp_to_min", Num(value.n), Num(range.min)))]
          ELSE IF AboveMax(fieldOf(st.doc, "age"), range)
            THEN [st EXCEPT !.doc = setField(st.doc, "age", Num(range.max)),
                            !.repairs = Append(st.repairs,
                               Repair("age", "clamp_to_max", Num(value.n), Num(range.max)))]
          ELSE st

\* the switch reads a property of rules, which is undefined for a collection
\* without rules: a TypeError
repairThrows(issue, hasRules) ==
  /\ ~hasRules
  /\ \/ issue.issue = "missing_required_field"
     \/ issue.issue = "invalid_value" /\ issue.field = "role"
     \/ issue.issue = "out_of_range" /\ issue.field = "age"

\* one iteration of issues.forEach
repairStep(st, issue, document, rules, hasRules) ==
  IF st.threw \/ repairThrows(issue, hasRules) THEN [st EXCEPT !.threw = TRUE]
  ELSE CASE issue.issue = "missing_required_field" -> repairMissing(st, issue, rules)
         [] issue.issue = "invalid_type" -> repairType(st, issue)
         [] issue.issue = "invalid_value" -> repairValue(st, issue, document, rules)
         [] issue.issue = "out_of_range" -> repairRange(st, issue, rules)
         [] OTHER -> st

RECURSIVE repairFoldReversed(_, _, _, _, _)
\* the issues processed from the last to the first
repairFoldReversed(k, issues, document, rules, hasRules) ==
  IF k = 0 THEN [doc |-> document, repairs |-> <<>>, threw |-> FALSE]
  ELSE Let(repairFoldReversed(k - 1, issues, document, rules, hasRules),
           LAMBDA st : repairStep(st, issues[Len(issues) - k + 1], document, rules, hasRules))

RECURSIVE repairFold(_, _, _, _, _)
\* issues.forEach over the first k issues
repairFold(k, issues, document, rules, hasRules) ==
  IF k = 0 THEN [doc |-> document, repairs |-> <<>>, threw |-> FALSE]
  ELSE Let(repairFold(k - 1, issues, document, rules, hasRules),
           LAMBDA st : repairStep(st, issues[k], document, rules, hasRules))

\* the predicate without its test of the default
deleteTriggerAnyHigh(issue, rules) ==
  /\ issue.severity = "high"
  /\ issue.issue = "invalid_value"

\* the predicate of issues.some(...)
deleteTrigger(issue, rules) ==
  /\ issue.severity = "high"
  /\ issue.issue = "invalid_value"
  /\ ~Truthy(defaultOf(rules, issue.field))

shouldDeleteOf(issues, rules) == \E i \in 1..Len(issues) : deleteTrigger(issues[i], rules)

\* rules.defaultValues read for every issue, before the other two conjuncts
someThrowsEager(issues, hasRules) == ~hasRules /\ issues # <<>>

\* issues.some reads rules.defaultValues once its first two conjuncts hold
someThrows(issues, hasRules) ==
  /\ ~hasRules
  /\ \E i \in 1..Len(issues) : issues[i].severity = "high" /\ issues[i].issue = "invalid_value"

\* repairDocument(document, issues, collection); threw = it raised a TypeError
repairDocument(document, issues, collection) ==
  Let(repairFold(Len(issues), issues, document, RulesOf(collection), HasRules(collection)),
      LAMBDA st :
        [document |-> st.doc,
         repairs |-> st.repairs,
         shouldDelete |-> HasRules(collection) /\ shouldDeleteOf(issues, RulesOf(collection)),
         threw |-> st.threw \/ someThrows(issues, HasRules(collection))])

(***************************************************************************)
(* Sample documents: the kinds of document backend/seed.js inserts         *)
(***************************************************************************)
N_bob == Str(<<"B", "o", "b">>)
E_ok == Str(<<"b", "@", "x", ".", "i", "o">>)

\* clean; e-mail missing (one issue, one repair); name missing (no default);
\* e-mail null (three issues, one repair); age above the range and role not allowed
U_clean == [name |-> N_bob, email |-> E_ok, age |-> Num(30), role |-> S_user, isActive |-> Bool(TRUE)]
U_noEmail == [name |-> N_bob, email |-> Undef, age |-> Num(35), role |-> S_user, isActive |-> Bool(TRUE)]
U_noName == [name |-> Undef, email |-> E_ok, age |-> Str(<<"4", "2">>), role |-> S_user, isActive |-> Bool(TRUE)]
U_nullEmail == [name |-> N_bob, email |-> Null, age |-> Num(40), role |-> S_user, isActive |-> Bool(TRUE)]
U_oldRoot == [name |-> N_bob, email |-> E_ok, age |-> Num(200), role |-> Str(<<"r", "o", "o", "t">>), isActive |-> Bool(TRUE)]

SampleUsers == {U_clean, U_noEmail, U_noName, U_nullEmail, U_oldRoot}

\* the documents insertMany(sampleUsers) writes, cut down to one of each kind,
\* by position
seedUsers == <<U_noEmail, U_clean, U_noName, U_oldRoot, U_nullEmail>>
SeedUser(id) == seedUsers[((id - 1) % Len(seedUsers)) + 1]

(***************************************************************************)
(* State                                                                   *)
(***************************************************************************)
DocIds == 1..NDocs
Reqs == 1..NReq

VARIABLES
  isRunning,     \* ConsistencyChecker.isRunning of the one shared instance
  currentCheck,  \* ConsistencyChecker.currentCheck
  users,         \* the users collection: _id -> [live, doc]
  status,        \* the Status collection: collection name -> record
  reports,       \* the Report collection, in insertion order
  nextId,        \* the next ObjectId a new Report(...) receives
  scans,         \* number of scans started so far
  clock,         \* Date.now()
  pc,            \* per request: where its handler is suspended
  call           \* per request: the locals of its handler and of checkCollection

vars == <<isRunning, currentCheck, users, status, reports, nextId, scans, clock, pc, call>>

GoneDoc == Doc(0, Undef, Undef, Undef, Undef, Undef)
Stored(id, b) == [live |-> TRUE, doc |-> Doc(id, b.name, b.email, b.age, b.role, b.isActive)]
Gone == [live |-> FALSE, doc |-> GoneDoc]

NoTime == [st |-> "undefined", at |-> 0]
NullTime == [st |-> "null", at |-> 0]
Date(now) == [st |-> "date", at |-> now]

\* no Status document for the collection yet
NoStatus ==
  [exists |-> FALSE, isConsistent |-> FALSE, lastCheckTime |-> NoTime,
   lastConsistentTime |-> NoTime, allReplicasConsistent |-> FALSE, lastReportId |-> 0]

\* the report object checkCollection builds; _id = 0 stands for "no _id property"
NewReport(collectionName, now) ==
  [_id |-> 0, timestamp |-> now, collection |-> collectionName, totalDocuments |-> 0,
   inconsistenciesFound |-> 0, repairsApplied |-> 0, documentsDeleted |-> 0,
   errors |-> <<>>, details |-> <<>>, duration |-> 0]

NoUpdate ==
  [isConsistent |-> FALSE, lastCheckTime |-> NoTime, lastConsistentTime |-> NoTime,
   allReplicasConsistent |-> FALSE, lastReportId |-> 0]

NoResponse == [code |-> 0, error |-> "", reportId |-> 0]

\* repairResult while no document is being repaired
NoRepair == [document |-> GoneDoc, repairs |-> <<>>, shouldDelete |-> FALSE, threw |-> FALSE]

IdleCall ==
  [via |-> "none", collection |-> "", startTime |-> 0, report |-> NewReport("", 0),
   documents |-> <<>>, i |-> 0, issues |-> <<>>, repairResult |-> NoRepair,
   update |-> NoUpdate, statusLog |-> "none", response |-> NoResponse]

AlreadyRunning == "Consistency check already in progress"

\* positions inside the body of checkCollection, after the running flag is set
ScanBody == {"find", "loop", "write", "status"}

\* the server starts on the database `npm run seed` has filled (the first
\* NDocs of seedUsers)
Init ==
  /\ isRunning = FALSE
  /\ currentCheck = "null"
  /\ users = [id \in DocIds |-> Stored(id, SeedUser(id))]
  /\ status = [c \in Collections |-> NoStatus]
  /\ reports = <<>>
  /\ nextId = 1
  /\ scans = 0
  /\ clock = 0
  /\ pc = [r \in Reqs |-> "idle"]
  /\ call = [r \in Reqs |-> IdleCall]

(***************************************************************************)
(* checkCollection and updateConsistencyStatus (consistencyChecker.js)     *)
(***************************************************************************)
\* the guard left out
CanEnterUnguarded(running) == TRUE

\* if (this.isRunning) throw ...: the call goes on only with the flag clear
CanEnter(running) == ~running

\* the guard moved inside the try block: finally clears the flag
FlagAfterThrowInTry(running) == FALSE

\* the throw of the guard sits before the try block, so the finally block
\* does not run for a rejected call and the flag keeps its value
FlagAfterThrow(running) == running

\* a document error leaving the loop
IndexAfterDocErrorAbort(i, n) == n + 1

\* catch (docError): the for-of loop goes on with the next document
IndexAfterDocError(i, n) == i + 1

\* `Error processing document ${doc._id}: ${docError.message}`
DocErrorMsg(doc, message) ==
  <<"Error processing document ">> \o ToStr(Num(doc._id)) \o <<": ", message>>

\* `Consistency check failed: ${error.message}`
ScanErrorMsg(message) == <<"Consistency check failed: ", message>>

RECURSIVE JoinDescriptions(_)
\* issues.map(i => i.description).join('; ')
JoinDescriptions(issues) ==
  IF issues = <<>> THEN <<>>
  ELSE IF Len(issues) = 1 THEN Head(issues).description
  ELSE Head(issues).description \o <<"; ">> \o JoinDescriptions(Tail(issues))

DeletedDetail(doc, issues) ==
  [documentId |-> ToStr(Num(doc._id)), issue |-> <<"irreparable_document">>,
   action |-> "deleted", details |-> JoinDescriptions(issues),
   oldValue |-> Undef, newValue |-> Undef]

RepairedDetail(doc, repair) ==
  [documentId |-> ToStr(Num(doc._id)), issue |-> <<repair.field, ": ", repair.action>>,
   action |-> "repaired", details |-> <<>>,
   oldValue |-> repair.oldValue, newValue |-> repair.newValue]

UnrepairedDetail(doc, issues) ==
  [documentId |-> ToStr(Num(doc._id)), issue |-> <<"unrepaired_issues">>,
   action |-> "none", details |-> JoinDescriptions(issues),
   oldValue |-> Undef, newValue |-> Undef]

\* the flag released on the success path only, not in a finally block
FinallyFlagKept(report, startTime, now) ==
  [report |-> [report EXCEPT !.duration = now - startTime],
   isRunning |-> report.errors # <<>>,
   currentCheck |-> "null"]

\* the duration left at its initial value
FinallyNoDuration(report, startTime, now) ==
  [report |-> report,
   isRunning |-> FALSE,
   currentCheck |-> "null"]

\* the finally block: duration stamped, flag released, currentCheck cleared
Finally(report, startTime, now) ==
  [report |-> [report EXCEPT !.duration = now - startTime],
   isRunning |-> FALSE,
   currentCheck |-> "null"]

\* consistent only when nothing was found
isConsistentOnlyClean(report) == report.inconsistenciesFound = 0

\* report.inconsistenciesFound === 0 ||
\*   report.inconsistenciesFound === report.repairsApplied + report.documentsDeleted
isConsistentOf(report) ==
  \/ report.inconsistenciesFound = 0
  \/ report.inconsistenciesFound = report.repairsApplied + report.documentsDeleted

\* the update document handed to Status.findOneAndUpdate
StatusUpdate(report, now) ==
  [isConsistent |-> isConsistentOf(report),
   lastCheckTime |-> Date(now),
   lastConsistentTime |-> IF isConsistentOf(report) THEN Date(now) ELSE NoTime,
   allReplicasConsistent |-> isConsistentOf(report),
   lastReportId |-> report._id]

\* an undefined value written as null
SetTimeNull(old, new) == IF new.st = "undefined" THEN NullTime ELSE new

\* a key whose value is undefined is dropped from the update, so the stored
\* value stays.  (The schemas declare paths named `collection` and `errors`,
\* which Mongoose accepts from version 6 on, where updates drop undefined keys.)
SetTime(old, new) == IF new.st = "undefined" THEN old ELSE new
SetRef(old, new) == IF new = 0 THEN old ELSE new

\* the upsert resolving without having written
UpsertDropped(old, update) == old

\* Status.findOneAndUpdate({collection}, update, {upsert: true, new: true})
Upsert(old, update) ==
  [exists |-> TRUE,
   isConsistent |-> update.isConsistent,
   lastCheckTime |-> SetTime(old.lastCheckTime, update.lastCheckTime),
   lastConsistentTime |-> SetTime(old.lastConsistentTime, update.lastConsistentTime),
   allReplicasConsistent |-> update.allReplicasConsistent,
   lastReportId |-> SetRef(old.lastReportId, update.lastReportId)]

RECURSIVE LiveDocs(_)
\* Model.find({}).lean(): the live documents from _id = k on, in _id order
LiveDocs(k) ==
  IF k > NDocs THEN <<>>
  ELSE (IF users[k].live THEN <<users[k].doc>> ELSE <<>>) \o LiveDocs(k + 1)

\* the body of checkCollection from the guard to the first await
Start(r, via, collectionName) ==
  /\ scans < MaxScans
  /\ scans' = scans + 1
  /\ isRunning' = TRUE
  /\ call' = [call EXCEPT ![r] = [IdleCall EXCEPT !.via = via,
                                                  !.collection = collectionName,
                                                  !.startTime = clock,
                                                  !.report = NewReport(collectionName, clock)]]
  /\ pc' = [pc EXCEPT ![r] = "find"]
  /\ UNCHANGED <<currentCheck, users, status, reports, nextId, clock>>

Respond(r, code, error) ==
  /\ call' = [call EXCEPT ![r] = [IdleCall EXCEPT !.via = "route",
                                     !.response = [code |-> code, error |-> error, reportId |-> 0]]]
  /\ pc' = [pc EXCEPT ![r] = "responded"]
  /\ UNCHANGED <<isRunning, currentCheck, users, status, reports, nextId, scans, clock>>

validCollections == {"users"}

\* consistencyChecker.isActive()
isActive(running) == running

\* router.post('/check', ...) up to its first await
PostCheck(r, collection) ==
  /\ pc[r] = "idle"
  /\ IF collection \notin validCollections
       THEN Respond(r, 400, "Invalid collection")
     ELSE IF isActive(isRunning)
       THEN Respond(r, 409, AlreadyRunning)
     ELSE IF ~CanEnter(isRunning)
       THEN Respond(r, 500, AlreadyRunning)
     ELSE Start(r, "route", collection)

\* checkCollection called on the shared instance by any other caller
CallCheck(r, collectionName) ==
  /\ pc[r] = "idle"
  /\ IF ~CanEnter(isRunning)
       THEN /\ call' = [call EXCEPT ![r] = [IdleCall EXCEPT !.via = "direct",
                           !.response = [code |-> 0, error |-> AlreadyRunning, reportId |-> 0]]]
            /\ pc' = [pc EXCEPT ![r] = "threw"]
            /\ isRunning' = FlagAfterThrow(isRunning)
            /\ UNCHANGED <<currentCheck, users, status, reports, nextId, scans, clock>>
       ELSE Start(r, "direct", collectionName)

\* checkCollection returns report: the route goes on to saveReport, where
\* new Report(reportData) assigns the _id before the awaited save()
Leave(r, report, statusLog) ==
  LET fin == Finally(report, call[r].startTime, clock)
  IN /\ isRunning' = fin.isRunning
     /\ currentCheck' = fin.currentCheck
     /\ IF call[r].via = "route"
          THEN /\ call' = [call EXCEPT ![r].report = [fin.report EXCEPT !._id = nextId],
                                       ![r].statusLog = statusLog]
               /\ nextId' = nextId + 1
               /\ pc' = [pc EXCEPT ![r] = "save"]
          ELSE /\ call' = [call EXCEPT ![r].report = fin.report,
                                       ![r].statusLog = statusLog]
               /\ nextId' = nextId
               /\ pc' = [pc EXCEPT ![r] = "returned"]

\* await Model.find({}).lean() resolves
FindResolve(r) ==
  /\ pc[r] = "find"
  /\ call' = [call EXCEPT ![r].documents = LiveDocs(1),
                          ![r].report.totalDocuments = Len(LiveDocs(1)),
                          ![r].i = 1]
  /\ pc' = [pc EXCEPT ![r] = "loop"]
  /\ UNCHANGED <<isRunning, currentCheck, users, status, reports, nextId, scans, clock>>

\* await Model.find({}).lean() rejects: outer catch, then finally
FindReject(r) ==
  /\ pc[r] = "find"
  /\ Leave(r, [call[r].report EXCEPT !.errors = Append(@, ScanErrorMsg("find failed"))], "none")
  /\ UNCHANGED <<users, status, reports, scans, clock>>

\* one 'repaired' entry per document, for its first repair action
RepairedDetailsFirst(doc, repairs) == <<RepairedDetail(doc, repairs[1])>>

RepairedDetails(doc, repairs) == [k \in 1..Len(repairs) |-> RepairedDetail(doc, repairs[k])]

\* what one iteration of the for-of loop computes before it touches the report
iteration(c) ==
  Let(c.documents[c.i], LAMBDA doc :
    Let(validateDocument(doc, c.collection), LAMBDA issues :
      [doc |-> doc, issues |-> issues, rr |-> repairDocument(doc, issues, c.collection)]))

\* the issue counter going up by one per document with issues
processDocCountsOne(c) ==
  Let(iteration(c), LAMBDA it :
    Let([c.report EXCEPT !.inconsistenciesFound = @ + 1], LAMBDA counted :
      IF Len(it.issues) = 0
        THEN [c EXCEPT !.i = @ + 1]
      ELSE IF it.rr.threw
        THEN [c EXCEPT !.report = [counted EXCEPT !.errors = Append(@, DocErrorMsg(it.doc, "TypeError"))],
                       !.i = IndexAfterDocError(c.i, Len(c.documents))]
      ELSE IF it.rr.shouldDelete \/ Len(it.rr.repairs) > 0
        THEN [c EXCEPT !.report = counted, !.issues = it.issues, !.repairResult = it.rr]
      ELSE [c EXCEPT !.report = [counted EXCEPT !.details = Append(@, UnrepairedDetail(it.doc, it.issues))],
                     !.i = @ + 1]))

\* the locals of checkCollection after one iteration of the for-of loop,
\* up to its await (if it has one): issues and repairResult live on across
\* the await
processDoc(c) ==
  Let(iteration(c), LAMBDA it :
    Let([c.report EXCEPT !.inconsistenciesFound = @ + Len(it.issues)], LAMBDA counted :
      IF Len(it.issues) = 0
        THEN [c EXCEPT !.i = @ + 1]
      ELSE IF it.rr.threw
        THEN [c EXCEPT !.report = [counted EXCEPT !.errors = Append(@, DocErrorMsg(it.doc, "TypeError"))],
                       !.i = IndexAfterDocError(c.i, Len(c.documents))]
      ELSE IF it.rr.shouldDelete \/ Len(it.rr.repairs) > 0
        THEN [c EXCEPT !.report = counted, !.issues = it.issues, !.repairResult = it.rr]
      ELSE [c EXCEPT !.report = [counted EXCEPT !.details = Append(@, UnrepairedDetail(it.doc, it.issues))],
                     !.i = @ + 1]))

\* the iteration stops at await Model.findByIdAndDelete / findByIdAndUpdate
awaitsWrite(c) == c.issues # <<>>

\* one iteration of the for-of loop, up to its await or to its end
ProcessDoc(r) ==
  /\ pc[r] = "loop"
  /\ call[r].i <= Len(call[r].documents)
  /\ call' = [call EXCEPT ![r] = processDoc(call[r])]
  /\ pc' = [pc EXCEPT ![r] = IF awaitsWrite(call'[r]) THEN "write" ELSE "loop"]
  /\ UNCHANGED <<isRunning, currentCheck, users, status, reports, nextId, scans, clock>>

\* Model.findByIdAndDelete(doc._id)
DeleteById(coll, id) == [coll EXCEPT ![id] = Gone]
\* the update never reaching the collection
UpdateByIdLost(coll, id, document) == coll

\* Model.findByIdAndUpdate(doc._id, repairResult.document): no document, no change
UpdateById(coll, id, document) ==
  IF coll[id].live THEN [coll EXCEPT ![id] = [live |-> TRUE, doc |-> document]] ELSE coll

\* the write deleting the document in either branch
writtenDeleted(coll, c) == DeleteById(coll, c.documents[c.i]._id)

\* the collection after the awaited delete or update
written(coll, c) ==
  IF c.repairResult.shouldDelete THEN DeleteById(coll, c.documents[c.i]._id)
  ELSE UpdateById(coll, c.documents[c.i]._id, c.repairResult.document)

\* the repaired counter going up by one per document instead of one per repair
afterWriteCountsOne(c) ==
  IF c.repairResult.shouldDelete
    THEN [c EXCEPT !.report.documentsDeleted = @ + 1,
                   !.report.details = Append(@, DeletedDetail(c.documents[c.i], c.issues)),
                   !.issues = <<>>, !.repairResult = NoRepair,
                   !.i = @ + 1]
    ELSE [c EXCEPT !.report.repairsApplied = @ + 1,
                   !.report.details = @ \o RepairedDetails(c.documents[c.i], c.repairResult.repairs),
                   !.issues = <<>>, !.repairResult = NoRepair,
                   !.i = @ + 1]

\* the locals after the awaited delete or update: counters and detail entries
afterWrite(c) ==
  IF c.repairResult.shouldDelete
    THEN [c EXCEPT !.report.documentsDeleted = @ + 1,
                   !.report.details = Append(@, DeletedDetail(c.documents[c.i], c.issues)),
                   !.issues = <<>>, !.repairResult = NoRepair,
                   !.i = @ + 1]
    ELSE [c EXCEPT !.report.repairsApplied = @ + Len(c.repairResult.repairs),
                   !.report.details = @ \o RepairedDetails(c.documents[c.i], c.repairResult.repairs),
                   !.issues = <<>>, !.repairResult = NoRepair,
                   !.i = @ + 1]

\* await Model.findByIdAndDelete(...) / await Model.findByIdAndUpdate(...) resolves
WriteResolve(r) ==
  /\ pc[r] = "write"
  /\ users' = written(users, call[r])
  /\ call' = [call EXCEPT ![r] = afterWrite(call[r])]
  /\ pc' = [pc EXCEPT ![r] = "loop"]
  /\ UNCHANGED <<isRunning, currentCheck, status, reports, nextId, scans, clock>>

\* a rejected write counted like a persisted one, besides its error string
WriteRejectCounted(r) ==
  /\ pc[r] = "write"
  /\ call' = [call EXCEPT ![r] =
        [afterWrite(call[r]) EXCEPT
           !.report.errors = Append(@, DocErrorMsg(call[r].documents[call[r].i], "write failed"))]]
  /\ pc' = [pc EXCEPT ![r] = "loop"]
  /\ UNCHANGED <<isRunning, currentCheck, users, status, reports, nextId, scans, clock>>

\* the awaited delete or update rejects: the per-document catch
WriteReject(r) ==
  /\ pc[r] = "write"
  /\ call' = [call EXCEPT
        ![r].report.errors = Append(@, DocErrorMsg(call[r].documents[call[r].i], "write failed")),
        ![r].issues = <<>>, ![r].repairResult = NoRepair,
        ![r].i = IndexAfterDocError(call[r].i, Len(call[r].documents))]
  /\ pc' = [pc EXCEPT ![r] = "loop"]
  /\ UNCHANGED <<isRunning, currentCheck, users, status, reports, nextId, scans, clock>>

\* after the loop: updateConsistencyStatus up to its await
CallStatus(r) ==
  /\ pc[r] = "loop"
  /\ call[r].i > Len(call[r].documents)
  /\ call' = [call EXCEPT ![r].update = StatusUpdate(call[r].report, clock)]
  /\ pc' = [pc EXCEPT ![r] = "status"]
  /\ UNCHANGED <<isRunning, currentCheck, users, status, reports, nextId, scans, clock>>

\* await Status.findOneAndUpdate(...) resolves; checkCollection returns
StatusResolve(r) ==
  /\ pc[r] = "status"
  /\ status' = [status EXCEPT ![call[r].collection] = Upsert(@, call[r].update)]
  /\ Leave(r, call[r].report, "updated")
  /\ UNCHANGED <<users, reports, scans, clock>>

\* await Status.findOneAndUpdate(...) rejects: caught and logged inside
\* updateConsistencyStatus; checkCollection returns
StatusReject(r) ==
  /\ pc[r] = "status"
  /\ Leave(r, call[r].report, "failed")
  /\ UNCHANGED <<users, status, reports, scans, clock>>

(***************************************************************************)
(* saveReport (reportGenerator.js) and the end of POST /check              *)
(***************************************************************************)
\* await report.save() resolves: res.json({success: true, ...})
SaveResolve(r) ==
  /\ pc[r] = "save"
  /\ reports' = Append(reports, call[r].report)
  /\ call' = [call EXCEPT ![r].response = [code |-> 200, error |-> "", reportId |-> call[r].report._id]]
  /\ pc' = [pc EXCEPT ![r] = "responded"]
  /\ UNCHANGED <<isRunning, currentCheck, users, status, nextId, scans, clock>>

\* await report.save() rejects: saveReport rethrows, the route answers 500
SaveReject(r) ==
  /\ pc[r] = "save"
  /\ call' = [call EXCEPT ![r].response = [code |-> 500, error |-> "save failed", reportId |-> 0]]
  /\ pc' = [pc EXCEPT ![r] = "responded"]
  /\ UNCHANGED <<isRunning, currentCheck, users, status, reports, nextId, scans, clock>>

\* the caller has its answer (response, returned report or exception)
Done(r) ==
  /\ pc[r] \in {"responded", "returned", "threw"}
  /\ pc' = [pc EXCEPT ![r] = "idle"]
  /\ call' = [call EXCEPT ![r] = IdleCall]
  /\ UNCHANGED <<isRunning, currentCheck, users, status, reports, nextId, scans, clock>>

(***************************************************************************)
(* seedDatabase (seed.js), run while no check is in progress, and time     *)
(***************************************************************************)
Seed ==
  /\ \A r \in Reqs : pc[r] \notin ScanBody
  /\ users' = [id \in DocIds |-> Stored(id, SeedUser(id))]
  /\ UNCHANGED <<isRunning, currentCheck, status, reports, nextId, scans, clock, pc, call>>

Tick ==
  /\ clock < MaxClock
  /\ clock' = clock + 1
  /\ UNCHANGED <<isRunning, currentCheck, users, status, reports, nextId, scans, pc, call>>

\* every request of every caller, on the shared checker instance
Next ==
  \/ \E r \in Reqs : \E c \in Collections : PostCheck(r, c)
  \/ \E r \in Reqs : \E c \in Collections : CallCheck(r, c)
  \/ \E r \in Reqs : FindResolve(r)
  \/ \E r \in Reqs : FindReject(r)
  \/ \E r \in Reqs : ProcessDoc(r)
  \/ \E r \in Reqs : WriteResolve(r)
  \/ \E r \in Reqs : WriteReject(r)
  \/ \E r \in Reqs : CallStatus(r)
  \/ \E r \in Reqs : StatusResolve(r)
  \/ \E r \in Reqs : StatusReject(r)
  \/ \E r \in Reqs : SaveResolve(r)
  \/ \E r \in Reqs : SaveReject(r)
  \/ \E r \in Reqs : Done(r)

Spec == Init /\ [][Next]_vars

(***************************************************************************)
(* One caller on the seeded collection, with time passing and the          *)
(* collection seeded again between scans: sequences of scans.              *)
(***************************************************************************)
SerialNext ==
  \/ \E c \in Collections : PostCheck(1, c)
  \/ \E c \in Collections : CallCheck(1, c)
  \/ FindResolve(1)
  \/ FindReject(1)
  \/ ProcessDoc(1)
  \/ WriteResolve(1)
  \/ WriteReject(1)
  \/ CallStatus(1)
  \/ StatusResolve(1)
  \/ StatusReject(1)
  \/ SaveResolve(1)
  \/ SaveReject(1)
  \/ Done(1)
  \/ Seed
  \/ Tick

SerialSpec == Init /\ [][SerialNext]_vars

(***************************************************************************)
(* One caller, any collection of sample documents: the scans of this       *)
(* specification run one after the other, over every choice of documents.  *)
(***************************************************************************)
DataInit ==
  /\ isRunning = FALSE
  /\ currentCheck = "null"
  /\ \E pick \in [DocIds -> SampleUsers] :
       users = [id \in DocIds |-> Stored(id, pick[id])]
  /\ status = [c \in Collections |-> NoStatus]
  /\ reports = <<>>
  /\ nextId = 1
  /\ scans = 0
  /\ clock = 0
  /\ pc = [r \in Reqs |-> "idle"]
  /\ call = [r \in Reqs |-> IdleCall]

DataNext ==
  \/ \E c \in Collections : PostCheck(1, c)
  \/ \E c \in Collections : CallCheck(1, c)
  \/ FindResolve(1)
  \/ FindReject(1)
  \/ ProcessDoc(1)
  \/ WriteResolve(1)
  \/ WriteReject(1)
  \/ CallStatus(1)
  \/ StatusResolve(1)
  \/ StatusReject(1)
  \/ SaveResolve(1)
  \/ SaveReject(1)
  \/ Done(1)

DataSpec == DataInit /\ [][DataNext]_vars

(***************************************************************************)
(* Liveness: NReq requests, each arriving once.  The event loop runs every *)
(* continuation that is ready and the awaited storage promises settle:     *)
(* each started scan keeps taking steps.                                   *)
(***************************************************************************)
ScanStep(r) ==
  \/ FindResolve(r) \/ FindReject(r) \/ ProcessDoc(r) \/ WriteResolve(r)
  \/ WriteReject(r) \/ CallStatus(r) \/ StatusResolve(r) \/ StatusReject(r)

LiveNext ==
  \/ \E r \in Reqs : \E c \in Collections : PostCheck(r, c)
  \/ \E r \in Reqs : \E c \in Collections : CallCheck(r, c)
  \/ \E r \in Reqs : ScanStep(r)
  \/ \E r \in Reqs : SaveResolve(r)
  \/ \E r \in Reqs : SaveReject(r)

LiveSpec == Init /\ [][LiveNext]_vars /\ \A r \in Reqs : WF_vars(ScanStep(r))

(***************************************************************************)
(* The exported functions called directly: validateDocument on a document, *)
(* then repairDocument on the document and an issue list, which is either  *)
(* what validateDocument returned or a list the caller built.  The         *)
(* document is any combination of the attribute values backend/seed.js     *)
(* uses, the bounds of the age range included.                             *)
(***************************************************************************)
S_root == Str(<<"r", "o", "o", "t">>)
S_noDomain == Str(<<"i", "@">>)
NameValues == {N_bob, Undef, Str(<<>>)}
EmailValues == {E_ok, Undef, Null, Str(<<>>), S_noDomain}
AgeValues ==
  {Undef, Null, Num(0 - 5), Num(AgeMin), Num(30), Num(AgeMax), Num(200),
   Str(<<"-", "5">>), Str(<<"0">>), Str(<<"4", "2">>), Str(<<"1", "5", "0">>),
   Str(<<"2", "0", "0">>), Str(<<"a", "b", "c">>)}
RoleValues == {S_user, S_root, Undef, Null}
ActiveValues == {Bool(TRUE), Undef}
InputDocs ==
  {Doc(1, n, e, a, ro, ac) : n \in NameValues, e \in EmailValues, a \in AgeValues,
                              ro \in RoleValues, ac \in ActiveValues}

\* issue objects a caller of repairDocument may build itself
SuppliedIssues ==
  {Issue("name", "invalid_value", "high", <<>>),
   Issue("age", "invalid_value", "high", <<>>),
   Issue("role", "invalid_value", "high", <<>>),
   Issue("role", "invalid_value", "medium", <<>>),
   Issue("email", "missing_required_field", "high", <<>>),
   Issue("name", "missing_required_field", "high", <<>>),
   Issue("age", "missing_required_field", "high", <<>>),
   Issue("age", "invalid_type", "medium", <<>>),
   Issue("age", "out_of_range", "medium", <<>>)}
IssueLists == UNION {[1..n -> SuppliedIssues] : n \in 0..MaxIssues}

DocInit ==
  /\ isRunning = FALSE
  /\ currentCheck = "null"
  /\ users = [id \in DocIds |-> Gone]
  /\ status = [c \in Collections |-> NoStatus]
  /\ reports = <<>>
  /\ nextId = 1
  /\ scans = 0
  /\ clock = 0
  /\ pc = [r \in Reqs |-> "idle"]
  /\ \E d \in InputDocs :
       call = [r \in Reqs |-> IF r = 1 THEN [IdleCall EXCEPT !.documents = <<d>>] ELSE IdleCall]

\* repairDocument writing to the caller's object instead of a copy
argumentAliased(document, result) == result.document

\* the caller's document after repairDocument returned: the function writes
\* to its copy { ...document } only
argumentAfter(document, result) == document

\* const issues = validateDocument(document, collection)
Validate(r, collection) ==
  /\ pc[r] = "idle"
  /\ call' = [call EXCEPT ![r].via = "validate", ![r].collection = collection,
                          ![r].issues = validateDocument(call[r].documents[1], collection)]
  /\ pc' = [pc EXCEPT ![r] = "validated"]
  /\ UNCHANGED <<isRunning, currentCheck, users, status, reports, nextId, scans, clock>>

\* the caller builds the issue list itself
Supply(r, collection, issues) ==
  /\ pc[r] = "idle"
  /\ call' = [call EXCEPT ![r].via = "supply", ![r].collection = collection,
                          ![r].issues = issues]
  /\ pc' = [pc EXCEPT ![r] = "validated"]
  /\ UNCHANGED <<isRunning, currentCheck, users, status, reports, nextId, scans, clock>>

\* const result = repairDocument(document, issues, collection)
afterRepair(c) ==
  Let(repairDocument(c.documents[1], c.issues, c.collection),
      LAMBDA result : [c EXCEPT !.repairResult = result,
                                !.documents = <<argumentAfter(c.documents[1], result)>>])

RepairCall(r) ==
  /\ pc[r] = "validated"
  /\ call' = [call EXCEPT ![r] = afterRepair(call[r])]
  /\ pc' = [pc EXCEPT ![r] = "repaired"]
  /\ UNCHANGED <<isRunning, currentCheck, users, status, reports, nextId, scans, clock>>

DocNext ==
  \/ \E c \in Collections : Validate(1, c)
  \/ \E c \in Collections : \E issues \in IssueLists : Supply(1, c, issues)
  \/ RepairCall(1)

DocSpec == DocInit /\ [][DocNext]_vars

(***************************************************************************)
(* Properties                                                              *)
(***************************************************************************)
Scanning(r) == pc[r] \in ScanBody
Returned(r) == pc[r] \in {"save", "returned"}
\* request r's handler runs its first, synchronous part in this step
Arrives(r) == pc[r] = "idle" /\ pc'[r] # "idle"
\* the awaited status upsert of r's scan succeeds in this step
StatusWritten(r) == pc[r] = "status" /\ call'[r].statusLog = "updated"

\* C1: at most one request is inside the scan body of checkCollection at any
\* time, whatever collections are named, and the running flag is set for as
\* long as a request is inside it.
C1_AtMostOneScan ==
  /\ Cardinality({r \in Reqs : Scanning(r)}) <= 1
  /\ \A r \in Reqs : Scanning(r) => isRunning

C1_Witness == \E r, q \in Reqs : pc[r] = "write" /\ pc[q] = "threw"

\* C2: a request for a scan that arrives while a scan is active is answered
\* in the same step with the conflict signal (409 from the route for a valid
\* collection, the 'already in progress' error from checkCollection), never
\* enters the scan body, and leaves the flag true and the active scan's
\* report and position, the documents, the Status records and the stored
\* reports as they were.
C2_RejectionChangesNothing ==
  [][\A r \in Reqs :
       (Arrives(r) /\ isRunning) =>
         /\ pc'[r] \in {"responded", "threw"}
         /\ call'[r].response.error = AlreadyRunning \/ call'[r].response.code = 400
         /\ (pc'[r] = "responded" /\ call'[r].response.code # 400) => call'[r].response.code = 409
         /\ isRunning'
         /\ users' = users /\ status' = status /\ reports' = reports
         /\ \A q \in Reqs \ {r} : pc'[q] = pc[q] /\ call'[q] = call[q]]_vars

C2_Witness ==
  \E r, q \in Reqs : /\ pc[q] = "write" /\ call[q].report.inconsistenciesFound > 0
                     /\ pc[r] = "responded" /\ call[r].response.code = 409

\* C3: every started scan returns: again and again no request is inside the
\* scan body, and a request leaves the scan body only by returning its
\* report, with the running flag false; the flag is never true while no scan
\* is executing; and a request arriving with the flag false is never
\* answered with the conflict signal.
C3_ScanReturnsAndReleases ==
  /\ []<>(\A r \in Reqs : ~Scanning(r))
  /\ [](isRunning => \E r \in Reqs : Scanning(r))
  /\ [][\A r \in Reqs : (Scanning(r) /\ ~Scanning(r)') => (Returned(r)' /\ ~isRunning')]_vars
  /\ [][\A r \in Reqs : (Arrives(r) /\ ~isRunning) =>
          (pc'[r] = "find" \/ call'[r].response.code = 400)]_vars

C3_Witness ==
  \E r, q \in Reqs : /\ Returned(q) /\ call[q].report.errors # <<>>
                     /\ pc[r] = "find" /\ scans = 2

RECURSIVE SumIssues(_, _)
SumIssues(docs, collection) ==
  IF docs = <<>> THEN 0
  ELSE Len(validateDocument(Head(docs), collection)) + SumIssues(Tail(docs), collection)

ErrorsFor(r, doc) ==
  Cardinality({k \in 1..Len(call[r].report.errors) :
     \E m \in {"TypeError", "write failed"} : call[r].report.errors[k] = DocErrorMsg(doc, m)})
DetailsFor(r, doc) ==
  Cardinality({k \in 1..Len(call[r].report.details) :
     call[r].report.details[k].documentId = ToStr(Num(doc._id))})

RECURSIVE SumErrors(_, _)
SumErrors(r, k) == IF k = 0 THEN 0 ELSE ErrorsFor(r, call[r].documents[k]) + SumErrors(r, k - 1)

\* C4: when the loop of a scan has ended, whatever documents failed: the
\* issues of every document of the snapshot were counted once; a document
\* with issues has either exactly one error string or its detail entries,
\* never both; a clean document has neither; the error list holds nothing
\* else.
C4_EveryDocumentVisitedOnce ==
  \A r \in Reqs : pc[r] = "status" =>
    /\ call[r].report.inconsistenciesFound = SumIssues(call[r].documents, call[r].collection)
    /\ \A k \in 1..Len(call[r].documents) :
         LET doc == call[r].documents[k]
             e == ErrorsFor(r, doc)
             d == DetailsFor(r, doc)
         IN IF validateDocument(doc, call[r].collection) = <<>>
              THEN e = 0 /\ d = 0
              ELSE (e = 1 /\ d = 0) \/ (e = 0 /\ d >= 1)
    /\ Len(call[r].report.errors) = SumErrors(r, Len(call[r].documents))

C4_Witness ==
  \E r \in Reqs : /\ pc[r] = "status"
                  /\ Len(call[r].documents) = NDocs
                  /\ call[r].report.errors # <<>>
                  /\ call[r].report.errors[1] = DocErrorMsg(call[r].documents[1], "write failed")
                  /\ call[r].report.repairsApplied > 0

C6_StatusFromCounters ==
  [][\A r \in Reqs : StatusWritten(r) =>
       LET rep == call'[r].report
           st == status'[call[r].collection]
       IN /\ st.isConsistent =
               (\/ rep.inconsistenciesFound = 0
                \/ rep.inconsistenciesFound = rep.repairsApplied + rep.documentsDeleted)
          /\ st.allReplicasConsistent = st.isConsistent]_vars

C6_Witness ==
  \E r \in Reqs : /\ Returned(r) /\ call[r].statusLog = "updated"
                  /\ call[r].report.inconsistenciesFound > 0
                  /\ status[call[r].collection].isConsistent
                  /\ status[call[r].collection].allReplicasConsistent

\* an issue of a snapshot document is resolved when the document is gone or
\* the stored document no longer has an issue of that kind on that field
IssueHolds(doc, issue, collection) ==
  \E k \in 1..Len(validateDocument(doc, collection)) :
     /\ validateDocument(doc, collection)[k].field = issue.field
     /\ validateDocument(doc, collection)[k].issue = issue.issue
AllIssuesResolved(r) ==
  \A k \in 1..Len(call[r].documents) :
    LET doc == call[r].documents[k]
        issues == validateDocument(doc, call[r].collection)
    IN \A j \in 1..Len(issues) :
         \/ ~users[doc._id].live
         \/ ~IssueHolds(users[doc._id].doc, issues[j], call[r].collection)

\* C7: the Status a scan writes has isConsistent = true if and only if every
\* issue the scan detected was repaired (the stored document no longer has
\* it) or removed with its document.
C7_ConsistentIffAllResolved ==
  [][\A r \in Reqs : StatusWritten(r) =>
       (status'[call[r].collection].isConsistent <=> AllIssuesResolved(r))]_vars

\* C8: a stored lastConsistentTime is never cleared, and it changes only in
\* a Status write whose isConsistent is true, to the time of that write.
C8_LastConsistentTimeKept ==
  [][\A c \in Collections :
       /\ status[c].lastConsistentTime.st = "date" => status'[c].lastConsistentTime.st = "date"
       /\ status'[c].lastConsistentTime # status[c].lastConsistentTime =>
            /\ status'[c].isConsistent
            /\ status'[c].lastConsistentTime = status'[c].lastCheckTime
            /\ \E r \in Reqs : StatusWritten(r) /\ call[r].collection = c]_vars

C8_Witness ==
  \E c \in Collections : /\ status[c].exists /\ ~status[c].isConsistent
                         /\ status[c].lastConsistentTime.st = "date"
                         /\ status[c].lastCheckTime.at > status[c].lastConsistentTime.at

\* C9: whenever a scan writes a Status with isConsistent = true, every
\* document then in storage validates with zero issues.
C9_ConsistentMeansAllValid ==
  [][\A r \in Reqs :
       (StatusWritten(r) /\ status'[call[r].collection].isConsistent) =>
          \A id \in DocIds :
             users'[id].live => validateDocument(users'[id].doc, call[r].collection) = <<>>]_vars

C9_Witness ==
  \E r \in Reqs : /\ Returned(r) /\ call[r].statusLog = "updated"
                  /\ call[r].report.repairsApplied = NDocs
                  /\ status[call[r].collection].isConsistent
                  /\ \A id \in DocIds : users[id].live

\* C10: once the report of a scan has been persisted, the Status that scan
\* wrote refers to it: lastReportId is the _id of the persisted report.
C10_StatusRefersToReport ==
  \A r \in Reqs :
    (pc[r] = "responded" /\ call[r].response.code = 200 /\ call[r].statusLog = "updated") =>
       status[call[r].collection].lastReportId = call[r].response.reportId

\* request r leaves the scan body in this step
Exits(r) == Scanning(r) /\ ~Scanning(r)'

\* C11 (as stated): every started scan ends with its report returned and the
\* Status record of its collection updated.
C11_OneReportOneStatusUpdate ==
  [][\A r \in Reqs : Exits(r) => (Returned(r)' /\ StatusWritten(r))]_vars

\* C11 (amended): every started scan returns one report, for its collection;
\* it updates the Status record of its collection once when the documents
\* were listed and the upsert succeeded, and leaves every Status record as
\* it was when the listing or the upsert failed; no other step changes a
\* Status record; a report is stored at most once, by the route that ran
\* the scan.
C11_OneReportAtMostOneStatusUpdate ==
  [][/\ \A r \in Reqs : Exits(r) =>
          /\ Returned(r)'
          /\ call'[r].report.collection = call[r].collection
          /\ pc[r] = "find" => call'[r].statusLog = "none"
          /\ pc[r] # "find" => pc[r] = "status" /\ call'[r].statusLog \in {"updated", "failed"}
          /\ StatusWritten(r) =>
                /\ status'[call[r].collection].exists
                /\ status'[call[r].collection].isConsistent = isConsistentOf(call'[r].report)
                /\ \A c \in Collections \ {call[r].collection} : status'[c] = status[c]
          /\ ~StatusWritten(r) => status' = status
     /\ status' # status => \E r \in Reqs : Exits(r) /\ StatusWritten(r)
     /\ reports' # reports =>
          \E r \in Reqs : /\ pc[r] = "save" /\ pc'[r] = "responded"
                          /\ reports' = Append(reports, call[r].report)
                          /\ \A k \in 1..Len(reports) : reports[k]._id # call[r].report._id]_vars

C11_Witness ==
  \E r, q \in Reqs :
     /\ Returned(r) /\ call[r].statusLog = "updated" /\ status[call[r].collection].exists
     /\ Returned(q) /\ call[q].statusLog = "none" /\ call[q].report.errors # <<>>

\* every issue of every document of the snapshot maps to a repair: the repair
\* of the document records one action per issue and asks for no deletion
EveryIssueRepairs(docs, collection) ==
  \A k \in 1..Len(docs) :
    Let(validateDocument(docs[k], collection), LAMBDA issues :
      Let(repairDocument(docs[k], issues, collection), LAMBDA rr :
        ~rr.threw /\ ~rr.shouldDelete /\ Len(rr.repairs) = Len(issues)))

Repaired(r) == pc[r] = "repaired" /\ call[r].via = "validate" /\ call[r].collection = "users"
\* request r has called repairDocument, on any issue list
RepairReturned(r) == pc[r] = "repaired" /\ ~call[r].repairResult.threw

NumericStringAge(document) ==
  TypeOf(document.age) = "string" /\ ~parseInt(document.age.s).nan

\* C14: for a document whose age is a well-formed numeric string, validate
\* reports no invalid_type issue on age, and repair on the issues of
\* validate records a type_conversion action on age whose newValue is the
\* parsed integer.
C14_NumericStringConverted ==
  \A r \in Reqs : (Repaired(r) /\ NumericStringAge(call[r].documents[1])) =>
     /\ \A k \in 1..Len(call[r].issues) :
           ~(call[r].issues[k].field = "age" /\ call[r].issues[k].issue = "invalid_type")
     /\ \E k \in 1..Len(call[r].repairResult.repairs) :
           /\ call[r].repairResult.repairs[k].field = "age"
           /\ call[r].repairResult.repairs[k].action = "type_conversion"
           /\ call[r].repairResult.repairs[k].newValue = Num(parseInt(call[r].documents[1].age.s).n)

\* request r's call of repairDocument returns in this step
RepairReturns(r) == pc[r] = "validated" /\ pc'[r] = "repaired" /\ ~call'[r].repairResult.threw

\* the document { name: 'Bob', age: '42' }
BobNoEmail == Doc(1, N_bob, Undef, Str(<<"4", "2">>), Undef, Undef)

\* C15: when repairDocument returns, for any document and issue list: every
\* repair action names the field of one of the issues; the repaired document
\* differs from the input only on fields a repair action names; the input
\* document is as it was before the call; with no issues the repaired
\* document equals the input and no action is recorded.  For
\* { name: 'Bob', age: '42' } validated under the users rules: one issue,
\* missing_required_field on email; one repair, set_default on email; age
\* still the string '42'.
C15_OnlyFlaggedFieldsRepaired ==
  [][\A r \in Reqs : RepairReturns(r) =>
       LET input == call[r].documents[1]
           issues == call[r].issues
           result == call'[r].repairResult
       IN /\ \A k \in 1..Len(result.repairs) :
               \E j \in 1..Len(issues) : issues[j].field = result.repairs[k].field
          /\ \A f \in Fields :
               result.document[f] # input[f] =>
                 \E k \in 1..Len(result.repairs) : result.repairs[k].field = f
          /\ result.document._id = input._id
          /\ call'[r].documents = call[r].documents
          /\ issues = <<>> => (result.document = input /\ result.repairs = <<>>)
          /\ (input = BobNoEmail /\ call[r].via = "validate" /\ call[r].collection = "users") =>
               /\ Len(issues) = 1
               /\ issues[1].field = "email" /\ issues[1].issue = "missing_required_field"
               /\ result.repairs = <<Repair("email", "set_default", Undef, S_missingEmail)>>
               /\ result.document = [input EXCEPT !.email = S_missingEmail]]_vars

C15_Witness ==
  \E r \in Reqs :
     /\ Repaired(r)
     /\ call[r].documents[1] = BobNoEmail
     /\ Len(call[r].repairResult.repairs) = 1
     /\ call[r].repairResult.document.age = Str(<<"4", "2">>)
     /\ call[r].repairResult.document.email = S_missingEmail

\* the rule set of the collection has an entry for the field in defaultValues
DefaultConfigured(collection, field) ==
  HasRules(collection) /\ defaultOf(RulesOf(collection), field) # Undef

\* C16: whenever repairDocument returns, for any document, issue list and
\* rule set, shouldDelete is true if and only if some issue has severity
\* high, kind invalid_value and a field without a configured default.
C16_ShouldDeleteIffNoDefault ==
  \A r \in Reqs : RepairReturned(r) =>
     (call[r].repairResult.shouldDelete <=>
        \E k \in 1..Len(call[r].issues) :
           /\ call[r].issues[k].severity = "high"
           /\ call[r].issues[k].issue = "invalid_value"
           /\ ~DefaultConfigured(call[r].collection, call[r].issues[k].field))

\* the issue list holds an issue of the kind on the field
Reports(issues, field, kind) ==
  \E k \in 1..Len(issues) : issues[k].field = field /\ issues[k].issue = kind

\* C17: under the users rules, validate reports missing_required_field on
\* name for every document whose name is missing or empty; and whenever
\* repair is given such an issue, it records no action on name, returns the
\* name as it was, and shouldDelete is true only if the list also holds an
\* invalid_value issue (never, for the list validate returned).
C17_MissingWithoutDefaultLeft ==
  \A r \in Reqs : (RepairReturned(r) /\ call[r].collection = "users") =>
     LET input == call[r].documents[1]
         result == call[r].repairResult
     IN /\ (call[r].via = "validate" /\ isMissing(input, "name")) =>
             (Reports(call[r].issues, "name", "missing_required_field") /\ ~result.shouldDelete)
        /\ Reports(call[r].issues, "name", "missing_required_field") =>
             /\ \A k \in 1..Len(result.repairs) : result.repairs[k].field # "name"
             /\ result.document.name = input.name
             /\ result.shouldDelete =>
                   \E k \in 1..Len(call[r].issues) : call[r].issues[k].issue = "invalid_value"

C17_Witness ==
  \E r \in Reqs :
     /\ Repaired(r)
     /\ call[r].documents[1].name = Str(<<>>)
     /\ Reports(call[r].issues, "name", "missing_required_field")
     /\ Reports(call[r].issues, "email", "missing_required_field")
     /\ Len(call[r].repairResult.repairs) = 1
     /\ call[r].repairResult.document.name = Str(<<>>)
     /\ ~call[r].repairResult.shouldDelete

\* the value breaks the allowed-value rule of role
RoleRejected(document) ==
  document.role # Undef /\ document.role \notin allowedOf(usersRules, "role")

\* C18: under the users rules (role is the field with an allowed-value set;
\* its default is 'user'), validate reports invalid_value with severity high
\* on a role outside the set; and whenever repair is given an invalid_value
\* issue on role it returns the role set to the default and records
\* set_default with the input's role as oldValue and the default as
\* newValue, and shouldDelete is true only if the list also holds an
\* invalid_value issue on another field (never, for the list validate
\* returned).
C18_AllowedValueSetToDefault ==
  \A r \in Reqs : (RepairReturned(r) /\ call[r].collection = "users") =>
     LET input == call[r].documents[1]
         result == call[r].repairResult
     IN /\ (call[r].via = "validate" /\ RoleRejected(input)) =>
             /\ \E k \in 1..Len(call[r].issues) :
                   /\ call[r].issues[k].field = "role"
                   /\ call[r].issues[k].issue = "invalid_value"
                   /\ call[r].issues[k].severity = "high"
             /\ ~result.shouldDelete
        /\ Reports(call[r].issues, "role", "invalid_value") =>
             /\ result.document.role = S_user
             /\ \E k \in 1..Len(result.repairs) :
                   result.repairs[k] = Repair("role", "set_default", input.role, S_user)
             /\ result.shouldDelete =>
                   \E k \in 1..Len(call[r].issues) :
                      call[r].issues[k].issue = "invalid_value" /\ call[r].issues[k].field # "role"

C18_Witness ==
  \E r \in Reqs :
     /\ Repaired(r)
     /\ call[r].documents[1].role = S_root
     /\ Reports(call[r].issues, "role", "invalid_value")
     /\ call[r].repairResult.repairs = <<Repair("role", "set_default", S_root, S_user)>>
     /\ call[r].repairResult.document.role = S_user
     /\ ~call[r].repairResult.shouldDelete

\* the age is a number or a string of digits with an optional sign
NumericAge(document) == TypeOf(document.age) = "number" \/ NumericStringAge(document)
\* the number it stands for
AgeNumber(document) ==
  IF TypeOf(document.age) = "number" THEN document.age.n ELSE parseInt(document.age.s).n

\* C19: under the users rules, for an age given as a number or a numeric
\* string, validate followed by repair: below 0, out_of_range is reported
\* and the age is repaired to exactly 0 with clamp_to_min; above 150,
\* out_of_range is reported and the age is repaired to exactly 150 with
\* clamp_to_max; from 0 to 150, the bounds included, no out_of_range issue
\* is reported and the age is returned as it was.
C19_RangeClamped ==
  \A r \in Reqs : (Repaired(r) /\ NumericAge(call[r].documents[1])) =>
     LET input == call[r].documents[1]
         v == AgeNumber(input)
         result == call[r].repairResult
     IN /\ v < AgeMin =>
             /\ Reports(call[r].issues, "age", "out_of_range")
             /\ result.document.age = Num(AgeMin)
             /\ \E k \in 1..Len(result.repairs) :
                   result.repairs[k] = Repair("age", "clamp_to_min", Num(v), Num(AgeMin))
        /\ v > AgeMax =>
             /\ Reports(call[r].issues, "age", "out_of_range")
             /\ result.document.age = Num(AgeMax)
             /\ \E k \in 1..Len(result.repairs) :
                   result.repairs[k] = Repair("age", "clamp_to_max", Num(v), Num(AgeMax))
        /\ (AgeMin <= v /\ v <= AgeMax) =>
             /\ ~Reports(call[r].issues, "age", "out_of_range")
             /\ result.document.age = input.age
             /\ \A k \in 1..Len(result.repairs) : result.repairs[k].field # "age"

C19_Witness ==
  \E r \in Reqs :
     /\ Repaired(r)
     /\ call[r].documents[1].age = Str(<<"-", "5">>)
     /\ Reports(call[r].issues, "age", "out_of_range")
     /\ call[r].repairResult.document.age = Num(AgeMin)
     /\ \E k \in 1..Len(call[r].repairResult.repairs) :
           call[r].repairResult.repairs[k].action = "clamp_to_min"

\* the document satisfies every rule of the users rule set: name and email
\* present and not empty; every attribute it carries of its declared type (a
\* string that parses as an integer counts as a number); role among the
\* allowed values; age within the range; email accepted by the custom
\* predicate
Satisfies(document) ==
  /\ \A f \in {"name", "email"} : document[f] \notin {Undef, Null, Str(<<>>)}
  /\ \A f \in {"name", "email", "role"} : document[f] # Undef => TypeOf(document[f]) = "string"
  /\ document.isActive # Undef => TypeOf(document.isActive) = "boolean"
  /\ document.age # Undef =>
        /\ NumericAge(document)
        /\ AgeMin <= AgeNumber(document) /\ AgeNumber(document) <= AgeMax
  /\ document.role # Undef => document.role \in {S_user, S_admin, S_moderator}
  /\ document.email # Undef => customValid("email", document.email)

\* request r has called validateDocument under the users rules
Validated(r) ==
  pc[r] \in {"validated", "repaired"} /\ call[r].via = "validate" /\ call[r].collection = "users"

\* C20: for every document that satisfies every rule of the users rule set,
\* validate returns the empty issue sequence.
C20_ValidDocumentNoIssues ==
  \A r \in Reqs : (Validated(r) /\ Satisfies(call[r].documents[1])) => call[r].issues = <<>>

C20_Witness ==
  \E r \in Reqs :
     /\ Validated(r) /\ pc[r] = "validated"
     /\ Satisfies(call[r].documents[1])
     /\ call[r].documents[1].age = Str(<<"1", "5", "0">>)
     /\ call[r].documents[1].role = S_user
     /\ call[r].issues = <<>>

\* the age is a string parseInt reads no number from
NonNumericStringAge(document) ==
  TypeOf(document.age) = "string" /\ parseInt(document.age.s).nan

\* C21: under the users rules, validate reports invalid_type with severity
\* medium on an age that is a non-numeric string; and repair, on the list
\* validate returned or on any list, records no action on such an age and
\* returns it as it was.
C21_NonNumericStringLeft ==
  \A r \in Reqs :
     (RepairReturned(r) /\ call[r].collection = "users"
        /\ NonNumericStringAge(call[r].documents[1])) =>
       /\ call[r].via = "validate" =>
            \E k \in 1..Len(call[r].issues) :
               /\ call[r].issues[k].field = "age"
               /\ call[r].issues[k].issue = "invalid_type"
               /\ call[r].issues[k].severity = "medium"
       /\ \A k \in 1..Len(call[r].repairResult.repairs) :
            call[r].repairResult.repairs[k].field # "age"
       /\ call[r].repairResult.document.age = call[r].documents[1].age

C21_Witness ==
  \E r \in Reqs :
     /\ Repaired(r)
     /\ call[r].documents[1].age = Str(<<"a", "b", "c">>)
     /\ Reports(call[r].issues, "age", "invalid_type")
     /\ call[r].repairResult.document.age = Str(<<"a", "b", "c">>)
     /\ call[r].repairResult.repairs # <<>>

\* C22: for an entity type without a rule set ("orders"): validate returns
\* exactly one issue, the descriptive string, for every document of the
\* snapshot; no step of the scan changes a stored document or awaits a
\* write; each iteration counts one issue, records no error and appends one
\* 'unrepaired_issues' entry; and the scan leaves by returning its report,
\* which after a completed loop has no error, one issue per document and no
\* repair or deletion.
C22_NoRulesScanCompletes ==
  [][\A r \in Reqs : (Scanning(r) /\ ~HasRules(call[r].collection)) =>
       /\ users' = users
       /\ pc'[r] # "write"
       /\ \A k \in 1..Len(call[r].documents) :
            validateDocument(call[r].documents[k], call[r].collection)
              = <<NoRulesIssue(call[r].collection)>>
       /\ (pc[r] = "loop" /\ pc'[r] = "loop") =>
            /\ call'[r].report.inconsistenciesFound = call[r].report.inconsistenciesFound + 1
            /\ call'[r].report.errors = <<>>
            /\ call'[r].report.details =
                 Append(call[r].report.details,
                        UnrepairedDetail(call[r].documents[call[r].i],
                                         <<NoRulesIssue(call[r].collection)>>))
       /\ Exits(r) =>
            /\ Returned(r)'
            /\ pc[r] = "status" =>
                 /\ call'[r].report.errors = <<>>
                 /\ call'[r].report.totalDocuments = Len(call[r].documents)
                 /\ call'[r].report.inconsistenciesFound = Len(call[r].documents)
                 /\ Len(call'[r].report.details) = Len(call[r].documents)
                 /\ call'[r].report.repairsApplied = 0
                 /\ call'[r].report.documentsDeleted = 0]_vars

C22_Witness ==
  \E r \in Reqs :
     /\ Returned(r) /\ ~HasRules(call[r].collection)
     /\ call[r].statusLog = "updated"
     /\ call[r].report.errors = <<>>
     /\ call[r].report.totalDocuments = NDocs
     /\ call[r].report.inconsistenciesFound = NDocs
     /\ Len(call[r].report.details) = NDocs
     /\ \A id \in DocIds : users[id].live

\* C23: whenever repairDocument returns under the users rules, for every
\* missing_required_field issue of its list: if the rules configure a
\* default for the field, the returned document has the field set to it and
\* a set_default action with that newValue is recorded; if they configure
\* none, no set_default action is recorded on the field.
C23_MissingFieldGetsDefault ==
  \A r \in Reqs : (RepairReturned(r) /\ call[r].collection = "users") =>
     \A k \in 1..Len(call[r].issues) :
        call[r].issues[k].issue = "missing_required_field" =>
          LET field == call[r].issues[k].field
              default == defaultOf(usersRules, field)
              repairs == call[r].repairResult.repairs
          IN IF DefaultConfigured("users", field)
               THEN /\ call[r].repairResult.document[field] = default
                    /\ \E j \in 1..Len(repairs) :
                          repairs[j] = Repair(field, "set_default", Undef, default)
               ELSE \A j \in 1..Len(repairs) :
                          ~(repairs[j].field = field /\ repairs[j].action = "set_default")

RECURSIVE RepairsFollow(_, _)
\* the repair actions are, in order, the actions of some of the issues taken
\* in the order of the list: each action is on the field of its issue and is
\* one that the case of the issue's kind records
RepairsFollow(repairs, issues) ==
  IF repairs = <<>> THEN TRUE
  ELSE IF issues = <<>> THEN FALSE
  ELSE LET actions ==
             CASE Head(issues).issue = "missing_required_field" -> {"set_default"}
               [] Head(issues).issue = "invalid_type" -> {"type_conversion"}
               [] Head(issues).issue = "invalid_value" -> {"set_default"}
               [] Head(issues).issue = "out_of_range" -> {"clamp_to_min", "clamp_to_max"}
               [] OTHER -> {}
       IN IF Head(repairs).field = Head(issues).field /\ Head(repairs).action \in actions
            THEN RepairsFollow(Tail(repairs), Tail(issues))
            ELSE RepairsFollow(repairs, Tail(issues))

\* C24: the list validate returns under the users rules has its issues in
\* stage order (missing_required_field, invalid_type, invalid_value,
\* out_of_range, custom_validation_failed); and the repair actions
\* repairDocument returns, for that list or any other, follow the order of
\* the issues it was given.
C24_StageOrderKept ==
  \A r \in Reqs :
     LET stage == [k \in {"missing_required_field", "invalid_type", "invalid_value",
                          "out_of_range", "custom_validation_failed"} |->
                     CASE k = "missing_required_field" -> 1
                       [] k = "invalid_type" -> 2
                       [] k = "invalid_value" -> 3
                       [] k = "out_of_range" -> 4
                       [] OTHER -> 5]
     IN /\ Validated(r) =>
             \A i, j \in 1..Len(call[r].issues) :
                i < j => stage[call[r].issues[i].issue] <= stage[call[r].issues[j].issue]
        /\ (RepairReturned(r) /\ call[r].collection = "users") =>
             RepairsFollow(call[r].repairResult.repairs, call[r].issues)

C24_Witness ==
  \E r \in Reqs :
     /\ Repaired(r)
     /\ Len(call[r].issues) = 5
     /\ Len(call[r].repairResult.repairs) = 3
     /\ call[r].repairResult.repairs[1].action = "set_default"
     /\ call[r].repairResult.repairs[1].field = "email"
     /\ call[r].repairResult.repairs[2].field = "role"
     /\ call[r].repairResult.repairs[3].action = "clamp_to_max"

Finished(r) == pc[r] = "status" \/ Returned(r)

RECURSIVE ScanSums(_, _)
\* over the first k documents of r's snapshot: the issues validateDocument
\* returns, the repair actions repairDocument returns, and the repair
\* actions of the documents whose update was persisted (no error recorded
\* for the document, no deletion asked), each summed
ScanSums(r, k) ==
  IF k = 0 THEN [issues |-> 0, repairs |-> 0, applied |-> 0]
  ELSE Let(call[r].documents[k], LAMBDA doc :
         Let(validateDocument(doc, call[r].collection), LAMBDA issues :
           Let(repairDocument(doc, issues, call[r].collection), LAMBDA result :
             Let(ScanSums(r, k - 1), LAMBDA before :
               [issues |-> before.issues + Len(issues),
                repairs |-> before.repairs + Len(result.repairs),
                applied |-> before.applied +
                   (IF ErrorsFor(r, doc) > 0 \/ result.shouldDelete
                      THEN 0 ELSE Len(result.repairs))]))))

\* C26 (as stated): when a scan finishes, totalDocuments is the number of
\* documents of the snapshot, inconsistenciesFound the sum of the issues
\* validate returned, and repairsApplied the sum of the repair actions repair
\* returned, over all documents.
C26_CountersAreSums ==
  \A r \in Reqs : Finished(r) =>
     /\ call[r].report.totalDocuments = Len(call[r].documents)
     /\ call[r].report.inconsistenciesFound = ScanSums(r, Len(call[r].documents)).issues
     /\ call[r].report.repairsApplied = ScanSums(r, Len(call[r].documents)).repairs

\* C26 (amended): when a scan finishes (it leaves the scan body with its
\* report), totalDocuments is the number of documents of the snapshot,
\* inconsistenciesFound the sum of the issues validate returned over all
\* documents, and repairsApplied the sum of the repair actions over the
\* documents whose update was persisted; it is the sum over all documents
\* when the report has no error.
C26_RepairsAppliedArePersisted ==
  [][\A r \in Reqs : Exits(r) =>
       Let(ScanSums(r, Len(call[r].documents)), LAMBDA sums :
         /\ call[r].report.totalDocuments = Len(call[r].documents)
         /\ call[r].report.inconsistenciesFound = sums.issues
         /\ call[r].report.repairsApplied = sums.applied
         /\ call[r].report.errors = <<>> => call[r].report.repairsApplied = sums.repairs
         /\ call'[r].report.totalDocuments = call[r].report.totalDocuments
         /\ call'[r].report.inconsistenciesFound = call[r].report.inconsistenciesFound
         /\ call'[r].report.repairsApplied = call[r].report.repairsApplied)]_vars

C26_Witness ==
  \E r \in Reqs :
     /\ Returned(r)
     /\ call[r].report.totalDocuments = NDocs
     /\ Len(call[r].report.errors) = 1
     /\ call[r].report.repairsApplied > 0
     /\ call[r].report.repairsApplied < ScanSums(r, NDocs).repairs
     /\ call[r].report.inconsistenciesFound > ScanSums(r, NDocs).repairs

\* C27: in every state of every scan, from its start to its return:
\* repairsApplied + documentsDeleted <= inconsistenciesFound, the detail
\* entries with action 'repaired' are as many as repairsApplied, and those
\* with action 'deleted' as many as documentsDeleted.
C27_CountersAndDetailsAgree ==
  \A r \in Reqs : (Scanning(r) \/ Returned(r)) =>
     LET rep == call[r].report
         entries(action) == {k \in 1..Len(rep.details) : rep.details[k].action = action}
     IN /\ rep.repairsApplied + rep.documentsDeleted <= rep.inconsistenciesFound
        /\ Cardinality(entries("repaired")) = rep.repairsApplied
        /\ Cardinality(entries("deleted")) = rep.documentsDeleted

C27_Witness ==
  \E r \in Reqs :
     /\ pc[r] = "loop" /\ call[r].i > NDocs
     /\ call[r].report.repairsApplied = 3
     /\ call[r].report.inconsistenciesFound = 5
     /\ Len(call[r].report.details) = 3
     /\ \A k \in 1..3 : call[r].report.details[k].action = "repaired"

\* the awaited update or delete of r's current document is rejected in this step
WriteFails(r) ==
  pc[r] = "write" /\ pc'[r] = "loop" /\ call'[r].report.errors # call[r].report.errors

\* C28: when the awaited update or delete of a document is rejected, the
\* issues of the document are already part of inconsistenciesFound, and the
\* step leaves inconsistenciesFound, repairsApplied, documentsDeleted, the
\* detail list and storage as they were, recording one error; and a Status
\* written by a scan in which a write was rejected has isConsistent = false.
C28_FailedWriteLeavesInconsistent ==
  [][\A r \in Reqs :
       /\ WriteFails(r) =>
            LET doc == call[r].documents[call[r].i]
                rep == call[r].report
                rep2 == call'[r].report
            IN /\ Len(validateDocument(doc, call[r].collection)) > 0
               /\ rep.inconsistenciesFound >=
                    SumIssues(SubSeq(call[r].documents, 1, call[r].i), call[r].collection)
               /\ rep2.inconsistenciesFound = rep.inconsistenciesFound
               /\ rep2.repairsApplied = rep.repairsApplied
               /\ rep2.documentsDeleted = rep.documentsDeleted
               /\ rep2.details = rep.details
               /\ rep2.errors = Append(rep.errors, DocErrorMsg(doc, "write failed"))
               /\ users' = users
       /\ (StatusWritten(r) /\ \E k \in 1..Len(call[r].documents) :
                                  ErrorsFor(r, call[r].documents[k]) > 0) =>
            /\ ~status'[call[r].collection].isConsistent
            /\ call'[r].report.repairsApplied + call'[r].report.documentsDeleted
                 < call'[r].report.inconsistenciesFound]_vars

C28_Witness ==
  \E r \in Reqs :
     /\ Returned(r) /\ call[r].statusLog = "updated"
     /\ Len(call[r].report.errors) = 1
     /\ call[r].report.repairsApplied > 0
     /\ status[call[r].collection].exists
     /\ ~status[call[r].collection].isConsistent

\* a scan of users has completed without a fault and its report was stored
Settled ==
  \E m \in 1..Len(reports) : reports[m].collection = "users" /\ reports[m].errors = <<>>

C30_NothingIsDeleted ==
  [][/\ \A r \in Reqs :
          /\ (pc[r] = "loop" /\ call[r].i <= Len(call[r].documents)) =>
               ~iteration(call[r]).rr.shouldDelete
          /\ pc[r] = "write" => ~call[r].repairResult.shouldDelete
          /\ (Scanning(r) \/ Returned(r)) => call[r].report.documentsDeleted = 0
     /\ \A id \in DocIds : users[id].live => users'[id].live
     /\ \A k \in 1..Len(reports) : reports[k].documentsDeleted = 0]_vars

C30_Witness ==
  \E r \in Reqs :
     /\ Returned(r) /\ call[r].collection = "users"
     /\ \E k \in 1..Len(call[r].report.details) :
           /\ call[r].report.details[k].issue = <<"role", ": ", "set_default">>
           /\ call[r].report.details[k].oldValue = S_root
     /\ call[r].report.documentsDeleted = 0
     /\ \A id \in DocIds : users[id].live /\ users[id].doc.role = S_user

====
